---------------------------- MODULE Spec2Model ----------------------------
(***************************************************************************)
(* bitsparrow: the Encoder and the Decoder of src/src/lib.rs as state      *)
(* machines over their fields.                                             *)
(*                                                                         *)
(* Integers wider than 31 bits are kept as the tuple of their 16-bit       *)
(* halves, most significant first: a u32 is <<hi, lo>>, a u64 is a pair of *)
(* u32.  A slice argument (&[u8], &str) is kept as a head followed by      *)
(* `pad` copies of `fill`, so that a slice longer than 0x3FFFFFFF can be   *)
(* an input without being written out.                                     *)
(***************************************************************************)
EXTENDS Integers, Sequences, FiniteSets, TLC

VARIABLES pc, enc, prev, written, ret, dec, before, last, nread

vars == <<pc, enc, prev, written, ret, dec, before, last, nread>>

---------------------------------------------------------------------------
(* Bounds of the exploration *)

\* longest chain of arbitrary writes
MaxOps == 2
\* longest chain of boolean writes with one uint8 or rejected size write
MaxRunOps == 9
\* longest byte sequence handed to Decoder::new directly
MaxBuf == 3

---------------------------------------------------------------------------
(* Machine arithmetic *)

\* std::usize::MAX: no Vec length reaches it; the largest integer TLC
\* represents stands for it
USIZE_MAX == 2147483647

\* the largest encodable size
MAX_SIZE == 1073741823

RECURSIVE BitAnd(_, _)
BitAnd(a, b) ==
    IF a = 0 \/ b = 0 THEN 0
    ELSE (a % 2) * (b % 2) + 2 * BitAnd(a \div 2, b \div 2)

RECURSIVE BitOr(_, _)
BitOr(a, b) ==
    IF a = 0 THEN b
    ELSE IF b = 0 THEN a
    ELSE (IF a % 2 = 1 \/ b % 2 = 1 THEN 1 ELSE 0)
         + 2 * BitOr(a \div 2, b \div 2)

RECURSIVE Pow2(_)
Pow2(k) == IF k = 0 THEN 1 ELSE 2 * Pow2(k - 1)

\* x << k in a w-bit unsigned type
Shl(x, k, w) == (x * Pow2(k)) % Pow2(w)

\* x << k in usize, for operands that keep the result under 2^30
UShl(x, k) == x * Pow2(k)

\* x >> k
Shr(x, k) == x \div Pow2(k)

\* `n as u32` for 0 <= n < 2^31
U32(n) == <<n \div 65536, n % 65536>>

U32Or(a, b) == <<BitOr(a[1], b[1]), BitOr(a[2], b[2])>>

\* ((u >> k) & 0xFF) as u8 for k in {24, 16, 8, 0}
U32Byte(u, k) ==
    IF k >= 16 THEN BitAnd(Shr(u[1], k - 16), 255)
    ELSE BitAnd(Shr(u[2], k), 255)

\* mem::transmute_copy between a signed integer and the unsigned integer of
\* its width: two's complement
I8ToU8(v) == v % 256
U8ToI8(u) == IF u >= 128 THEN u - 256 ELSE u
I16ToU16(v) == v % 65536
U16ToI16(u) == IF u >= 32768 THEN u - 65536 ELSE u
I32ToU32(v) == <<(v \div 65536) % 65536, v % 65536>>
U32ToI32(u) == (IF u[1] >= 32768 THEN u[1] - 65536 ELSE u[1]) * 65536 + u[2]

---------------------------------------------------------------------------
(* Slices *)

Slice(head, pad, fill) == [head |-> head, pad |-> pad, fill |-> fill]

\* bytes.len(), string.len()
SliceLen(s) == Len(s.head) + s.pad

\* the bytes of the slice
SliceBytes(s) == s.head \o [i \in 1..s.pad |-> s.fill]

---------------------------------------------------------------------------
(* Error *)

ErrorNew(msg) == msg

out_of_bounds == ErrorNew("Attempted to read out of bounds")

Ok(v) == [tag |-> "Ok", val |-> v]
Err(e) == [tag |-> "Err", msg |-> e]
Panic == [tag |-> "Panic"]

---------------------------------------------------------------------------
(* Encoder *)

NoError == "None"

Encoder_new ==
    [data |-> <<>>, bool_index |-> USIZE_MAX, bool_shift |-> 0,
     last_error |-> NoError]

Encoder_uint8(e, uint8) == [e EXCEPT !.data = Append(@, uint8)]

Encoder_uint16(e, uint16) ==
    [e EXCEPT !.data = Append(Append(@, Shr(uint16, 8)), BitAnd(uint16, 255))]

Encoder_uint32(e, uint32) ==
    [e EXCEPT !.data = @ \o <<U32Byte(uint32, 24), U32Byte(uint32, 16),
                              U32Byte(uint32, 8), U32Byte(uint32, 0)>>]

Encoder_int8(e, int8) == Encoder_uint8(e, I8ToU8(int8))

Encoder_int16(e, int16) == Encoder_uint16(e, I16ToU16(int16))

Encoder_int32(e, int32) == Encoder_uint32(e, I32ToU32(int32))

\* a float is its bit pattern
Encoder_float32(e, float32) == Encoder_uint32(e, float32)

Encoder_float64(e, float64) ==
    Encoder_uint32(Encoder_uint32(e, float64[1]), float64[2])

\* Encoder_bool continuing a run whatever was written since its last boolean
Encoder_bool_sticky(e, bool) ==
    LET bool_bit == IF bool THEN 1 ELSE 0
        index == Len(e.data)
    IN  IF e.bool_index # USIZE_MAX /\ e.bool_shift < 7
        THEN [e EXCEPT !.bool_shift = @ + 1,
                       !.data[index] =
                           BitOr(@, Shl(bool_bit, e.bool_shift + 1, 8))]
        ELSE Encoder_uint8([e EXCEPT !.bool_index = index + 1,
                                     !.bool_shift = 0], bool_bit)

\* Encoder_bool shifting by the run's count before it is advanced
Encoder_bool_early_shift(e, bool) ==
    LET bool_bit == IF bool THEN 1 ELSE 0
        index == Len(e.data)
    IN  IF e.bool_index = index /\ e.bool_shift < 7
        THEN [e EXCEPT !.bool_shift = @ + 1,
                       !.data[index] =
                           BitOr(@, Shl(bool_bit, e.bool_shift, 8))]
        ELSE Encoder_uint8([e EXCEPT !.bool_index = index + 1,
                                     !.bool_shift = 0], bool_bit)

Encoder_bool(e, bool) ==
    LET bool_bit == IF bool THEN 1 ELSE 0
        index == Len(e.data)
    IN  IF e.bool_index = index /\ e.bool_shift < 7
        THEN [e EXCEPT !.bool_shift = @ + 1,
                       !.data[index] =
                           BitOr(@, Shl(bool_bit, e.bool_shift + 1, 8))]
        ELSE Encoder_uint8([e EXCEPT !.bool_index = index + 1,
                                     !.bool_shift = 0], bool_bit)

\* Encoder_size with the one-byte range one too wide
Encoder_size_wide7(e, size) ==
    IF size > MAX_SIZE
    THEN [e EXCEPT !.last_error = ErrorNew("[size] value is too large")]
    ELSE IF size <= 128
    THEN Encoder_uint8(e, size)
    ELSE IF size < 16384
    THEN Encoder_uint16(e, BitOr(size, 32768))
    ELSE Encoder_uint32(e, U32Or(U32(size), <<49152, 0>>))

Encoder_size(e, size) ==
    IF size > MAX_SIZE
    THEN [e EXCEPT !.last_error = ErrorNew("[size] value is too large")]
    ELSE IF size < 128
    THEN Encoder_uint8(e, size)
    ELSE IF size < 16384
    THEN Encoder_uint16(e, BitOr(size, 32768))
    ELSE Encoder_uint32(e, U32Or(U32(size), <<49152, 0>>))

\* Encoder_bytes keeping an error that is already set
Encoder_bytes_keep_first(e, bytes) ==
    LET size == SliceLen(bytes)
    IN  IF size > MAX_SIZE
        THEN IF e.last_error # NoError THEN e
             ELSE [e EXCEPT !.last_error = ErrorNew("[bytes] is too long")]
        ELSE LET sref == Encoder_size(e, size)
             IN  [sref EXCEPT !.data = @ \o SliceBytes(bytes)]

Encoder_bytes(e, bytes) ==
    LET size == SliceLen(bytes)
    IN  IF size > MAX_SIZE
        THEN [e EXCEPT !.last_error = ErrorNew("[bytes] is too long")]
        ELSE LET sref == Encoder_size(e, size)
             IN  [sref EXCEPT !.data = @ \o SliceBytes(bytes)]

\* Encoder_string dropping an oversize string without recording the error
Encoder_string_silent(e, string) ==
    LET size == SliceLen(string)
    IN  IF size > MAX_SIZE
        THEN e
        ELSE LET sref == Encoder_size(e, size)
             IN  [sref EXCEPT !.data = @ \o SliceBytes(string)]

Encoder_string(e, string) ==
    LET size == SliceLen(string)
    IN  IF size > MAX_SIZE
        THEN [e EXCEPT !.last_error = ErrorNew("[string] is too long")]
        ELSE LET sref == Encoder_size(e, size)
             IN  [sref EXCEPT !.data = @ \o SliceBytes(string)]

Encoder_end(e) ==
    IF e.last_error # NoError THEN Err(e.last_error) ELSE Ok(e.data)

---------------------------------------------------------------------------
(* Decoder *)

\* the outcome of one call: the Decoder after it, and what it returned
Ret(d, r) == [st |-> d, res |-> r]

IsOk(r) == r.res.tag = "Ok"

Decoder_new(data) ==
    [index |-> 0, length |-> Len(data), data |-> data,
     bool_index |-> USIZE_MAX, bool_shift |-> 0]

\* self.data[i]: a Vec index is bounds-checked, and panics outside 0..len-1
DataAt(d, i) ==
    IF i >= 0 /\ i < Len(d.data) THEN Ok(d.data[i + 1]) ELSE Panic

\* self.data[from .. to].to_vec(): panics unless from <= to <= len
DataRange(d, from, to) ==
    IF from >= 0 /\ from <= to /\ to <= Len(d.data)
    THEN Ok(SubSeq(d.data, from + 1, to))
    ELSE Panic

\* Decoder_uint8 advancing the cursor before it checks the bounds
Decoder_uint8_advancing(d) ==
    LET index == d.index
    IN  IF index >= d.length
        THEN Ret([d EXCEPT !.index = index + 1], Err(out_of_bounds))
        ELSE LET uint8 == DataAt(d, index)
             IN  IF uint8.tag # "Ok" THEN Ret(d, uint8)
                 ELSE Ret([d EXCEPT !.index = index + 1], uint8)

Decoder_uint8(d) ==
    LET index == d.index
    IN  IF index >= d.length
        THEN Ret(d, Err(out_of_bounds))
        ELSE LET uint8 == DataAt(d, index)
             IN  IF uint8.tag # "Ok" THEN Ret(d, uint8)
                 ELSE Ret([d EXCEPT !.index = index + 1], uint8)

\* try!(r): return r's error from the enclosing function, else go on with r
Try(r, F(_)) == IF ~IsOk(r) THEN r ELSE F(r)

\* Decoder_uint16 assembling the bytes least significant first
Decoder_uint16_swapped(d) ==
    Try(Decoder_uint8(d), LAMBDA a :
    Try(Decoder_uint8(a.st), LAMBDA b :
        Ret(b.st, Ok(BitOr(Shl(b.res.val, 8, 16), a.res.val)))))

Decoder_uint16(d) ==
    Try(Decoder_uint8(d), LAMBDA a :
    Try(Decoder_uint8(a.st), LAMBDA b :
        Ret(b.st, Ok(BitOr(Shl(a.res.val, 8, 16), b.res.val)))))

Decoder_uint32(d) ==
    Try(Decoder_uint8(d), LAMBDA a :
    Try(Decoder_uint8(a.st), LAMBDA b :
    Try(Decoder_uint8(b.st), LAMBDA c :
    Try(Decoder_uint8(c.st), LAMBDA e :
        Ret(e.st, Ok(<<BitOr(Shl(a.res.val, 8, 16), b.res.val),
                       BitOr(Shl(c.res.val, 8, 16), e.res.val)>>))))))

Decoder_int8(d) ==
    Try(Decoder_uint8(d), LAMBDA uint8 :
        Ret(uint8.st, Ok(U8ToI8(uint8.res.val))))

Decoder_int16(d) ==
    Try(Decoder_uint16(d), LAMBDA uint16 :
        Ret(uint16.st, Ok(U16ToI16(uint16.res.val))))

Decoder_int32(d) ==
    Try(Decoder_uint32(d), LAMBDA uint32 :
        Ret(uint32.st, Ok(U32ToI32(uint32.res.val))))

Decoder_float32(d) ==
    Try(Decoder_uint32(d), LAMBDA uint32 :
        Ret(uint32.st, Ok(uint32.res.val)))

Decoder_float64(d) ==
    Try(Decoder_uint32(d), LAMBDA hi :
    Try(Decoder_uint32(hi.st), LAMBDA lo :
        Ret(lo.st, Ok(<<hi.res.val, lo.res.val>>))))

\* Decoder_bool continuing a run without comparing bool_index to the cursor
Decoder_bool_unguarded(d) ==
    LET index == d.index
        bool_shift == d.bool_shift
    IN  IF bool_shift < 7
        THEN LET bits == DataAt(d, index - 1)
                 bool_bit == Shl(1, bool_shift + 1, 8)
             IN  IF bits.tag # "Ok"
                 THEN Ret([d EXCEPT !.bool_shift = bool_shift + 1], bits)
                 ELSE Ret([d EXCEPT !.bool_shift = bool_shift + 1],
                          Ok(BitAnd(bits.val, bool_bit) = bool_bit))
        ELSE Try(Decoder_uint8(d), LAMBDA bits :
                 Ret([bits.st EXCEPT !.bool_index = bits.st.index,
                                     !.bool_shift = 0],
                     Ok(BitAnd(bits.res.val, 1) = 1)))

Decoder_bool(d) ==
    LET index == d.index
        bool_shift == d.bool_shift
    IN  IF d.bool_index = index /\ bool_shift < 7
        THEN LET bits == DataAt(d, index - 1)
                 bool_bit == Shl(1, bool_shift + 1, 8)
             IN  IF bits.tag # "Ok"
                 THEN Ret([d EXCEPT !.bool_shift = bool_shift + 1], bits)
                 ELSE Ret([d EXCEPT !.bool_shift = bool_shift + 1],
                          Ok(BitAnd(bits.val, bool_bit) = bool_bit))
        ELSE Try(Decoder_uint8(d), LAMBDA bits :
                 Ret([bits.st EXCEPT !.bool_index = bits.st.index,
                                     !.bool_shift = 0],
                     Ok(BitAnd(bits.res.val, 1) = 1)))

Decoder_size(d) ==
    Try(Decoder_uint8(d), LAMBDA first :
        IF BitAnd(first.res.val, 128) = 0 THEN first
        ELSE LET sig == Shr(first.res.val, 6)
                 size == BitAnd(first.res.val, 63)
             IN  IF sig = 2
                 THEN Try(Decoder_uint8(first.st), LAMBDA b1 :
                          Ret(b1.st, Ok(BitOr(UShl(size, 8), b1.res.val))))
                 ELSE Try(Decoder_uint8(first.st), LAMBDA b1 :
                      Try(Decoder_uint8(b1.st), LAMBDA b2 :
                      Try(Decoder_uint8(b2.st), LAMBDA b3 :
                          Ret(b3.st,
                              Ok(BitOr(BitOr(BitOr(UShl(size, 24),
                                                   UShl(b1.res.val, 16)),
                                             UShl(b2.res.val, 8)),
                                       b3.res.val)))))))

\* Decoder_bytes copying what is left when the length exceeds it
Decoder_bytes_clamped(d) ==
    Try(Decoder_size(d), LAMBDA size :
        LET index == size.st.index
            to == IF index + size.res.val > size.st.length
                  THEN size.st.length ELSE index + size.res.val
            bytes == DataRange(size.st, index, to)
        IN  IF bytes.tag # "Ok" THEN Ret(size.st, bytes)
            ELSE Ret([size.st EXCEPT !.index = to], bytes))

Decoder_bytes(d) ==
    Try(Decoder_size(d), LAMBDA size :
        LET index == size.st.index
        IN  IF index + size.res.val > size.st.length
            THEN Ret(size.st, Err(out_of_bounds))
            ELSE LET bytes == DataRange(size.st, index, index + size.res.val)
                 IN  IF bytes.tag # "Ok" THEN Ret(size.st, bytes)
                     ELSE Ret([size.st EXCEPT !.index = index + size.res.val],
                              bytes))

\* a UTF-8 continuation byte
Cont(b) == b >= 128 /\ b <= 191

\* String::from_utf8 accepts exactly the well-formed UTF-8 byte sequences
RECURSIVE ValidUtf8(_)
ValidUtf8(s) ==
    IF s = <<>> THEN TRUE
    ELSE LET b == s[1]
             n == Len(s)
             two(lo, hi) == n >= 2 /\ s[2] >= lo /\ s[2] <= hi
                            /\ ValidUtf8(SubSeq(s, 3, n))
             three(lo, hi) == n >= 3 /\ s[2] >= lo /\ s[2] <= hi
                              /\ Cont(s[3]) /\ ValidUtf8(SubSeq(s, 4, n))
             four(lo, hi) == n >= 4 /\ s[2] >= lo /\ s[2] <= hi
                             /\ Cont(s[3]) /\ Cont(s[4])
                             /\ ValidUtf8(SubSeq(s, 5, n))
         IN  CASE b <= 127 -> ValidUtf8(Tail(s))
               [] b >= 194 /\ b <= 223 -> two(128, 191)
               [] b = 224 -> three(160, 191)
               [] (b >= 225 /\ b <= 236) \/ b = 238 \/ b = 239
                    -> three(128, 191)
               [] b = 237 -> three(128, 159)
               [] b = 240 -> four(144, 191)
               [] b >= 241 /\ b <= 243 -> four(128, 191)
               [] b = 244 -> four(128, 143)
               [] OTHER -> FALSE

Decoder_string(d) ==
    Try(Decoder_bytes(d), LAMBDA bytes :
        IF ValidUtf8(bytes.res.val) THEN bytes
        ELSE Ret(bytes.st, Err(ErrorNew("Couldn't decode UTF-8 string"))))

\* Decoder_end true only past the length
Decoder_end_past(d) == d.index > d.length

Decoder_end(d) == d.index >= d.length

---------------------------------------------------------------------------
(* Inputs *)

Uint8Vals == {1, 255}
Uint16Vals == {258, 65534}
Uint32Vals == {<<258, 772>>, <<65534, 65020>>}
Int8Vals == {-128, 127}
Int16Vals == {-32768, 258}
Int32Vals == {-2147483647 - 1, 16909060}
\* -0.0 and a NaN with a payload
Float32Vals == {<<32768, 0>>, <<32704, 1>>}
Float64Vals == {<< <<32768, 0>>, <<0, 0>> >>, << <<32760, 0>>, <<0, 1>> >>}
SizeVals == {0, 127, 128, 16383, 16384, 1073741823, 1073741824, 2147483647}
BytesVals ==
    {Slice(<<>>, 0, 0), Slice(<<1, 2>>, 0, 0), Slice(<<7>>, 129, 0),
     Slice(<<>>, 1073741824, 0)}
\* "ok", "hé", and 2^30 times "a"
StringVals ==
    {Slice(<<111, 107>>, 0, 0), Slice(<<104, 195, 169>>, 0, 0),
     Slice(<<>>, 1073741824, 97)}

Vals(op) ==
    CASE op = "uint8" -> Uint8Vals
      [] op = "uint16" -> Uint16Vals
      [] op = "uint32" -> Uint32Vals
      [] op = "int8" -> Int8Vals
      [] op = "int16" -> Int16Vals
      [] op = "int32" -> Int32Vals
      [] op = "float32" -> Float32Vals
      [] op = "float64" -> Float64Vals
      [] op = "bool" -> BOOLEAN
      [] op = "size" -> SizeVals
      [] op = "bytes" -> BytesVals
      [] op = "string" -> StringVals

\* the bytes a Decoder may be built from directly
ByteVals == {0, 1, 2, 129, 192}

Buffers == UNION {[1..n -> ByteVals] : n \in 0..MaxBuf}

---------------------------------------------------------------------------
(* The chain of writes explored *)

Call(op, v) == [op |-> op, val |-> v]

\* the magnitude a size, bytes or string write is judged by
Magnitude(w) == IF w.op = "size" THEN w.val ELSE SliceLen(w.val)

Oversize(w) == w.op \in {"size", "bytes", "string"} /\ Magnitude(w) > MAX_SIZE

\* a write that breaks a boolean run in the long chains
RunBreak(w) ==
    \/ w.op = "uint8" /\ w.val = 255
    \/ w.op = "size" /\ w.val = 1073741824

NonBool(chain) == {i \in 1..Len(chain) : chain[i].op # "bool"}

\* The chains explored:
\*   any chain of up to MaxOps writes;
\*   a chain of up to MaxOps writes followed by one boolean write more,
\*     when it starts with a boolean write too;
\*   a chain of up to MaxRunOps boolean writes, one of which may be replaced
\*     by a uint8 write or by a rejected size write.
InBounds(chain) ==
    \/ Len(chain) <= MaxOps
    \/ /\ Len(chain) <= MaxOps + 1
       /\ chain[1].op = "bool"
       /\ chain[Len(chain)].op = "bool"
    \/ /\ Len(chain) <= MaxRunOps
       /\ \A i \in NonBool(chain) : RunBreak(chain[i])
       /\ \A i, j \in NonBool(chain) : i = j

---------------------------------------------------------------------------
(* Operations *)

Apply(op, v, e) ==
    CASE op = "uint8" -> Encoder_uint8(e, v)
      [] op = "uint16" -> Encoder_uint16(e, v)
      [] op = "uint32" -> Encoder_uint32(e, v)
      [] op = "int8" -> Encoder_int8(e, v)
      [] op = "int16" -> Encoder_int16(e, v)
      [] op = "int32" -> Encoder_int32(e, v)
      [] op = "float32" -> Encoder_float32(e, v)
      [] op = "float64" -> Encoder_float64(e, v)
      [] op = "bool" -> Encoder_bool(e, v)
      [] op = "size" -> Encoder_size(e, v)
      [] op = "bytes" -> Encoder_bytes(e, v)
      [] op = "string" -> Encoder_string(e, v)

Read(op, d) ==
    CASE op = "uint8" -> Decoder_uint8(d)
      [] op = "uint16" -> Decoder_uint16(d)
      [] op = "uint32" -> Decoder_uint32(d)
      [] op = "int8" -> Decoder_int8(d)
      [] op = "int16" -> Decoder_int16(d)
      [] op = "int32" -> Decoder_int32(d)
      [] op = "float32" -> Decoder_float32(d)
      [] op = "float64" -> Decoder_float64(d)
      [] op = "bool" -> Decoder_bool(d)
      [] op = "size" -> Decoder_size(d)
      [] op = "bytes" -> Decoder_bytes(d)
      [] op = "string" -> Decoder_string(d)

NoCall == [op |-> "new", res |-> Ok(0)]

\* one write of the chain: the Encoder is consumed and returned
Write(op) ==
    /\ \E v \in Vals(op) :
          /\ InBounds(Append(written, Call(op, v)))
          /\ enc' = Apply(op, v, enc)
          /\ written' = Append(written, Call(op, v))
    /\ prev' = enc
    /\ UNCHANGED <<pc, ret, dec, before, last, nread>>

Enc_uint8 == pc = "enc" /\ Write("uint8")
Enc_uint16 == pc = "enc" /\ Write("uint16")
Enc_uint32 == pc = "enc" /\ Write("uint32")
Enc_int8 == pc = "enc" /\ Write("int8")
Enc_int16 == pc = "enc" /\ Write("int16")
Enc_int32 == pc = "enc" /\ Write("int32")
Enc_float32 == pc = "enc" /\ Write("float32")
Enc_float64 == pc = "enc" /\ Write("float64")
Enc_bool == pc = "enc" /\ Write("bool")
Enc_size == pc = "enc" /\ Write("size")
Enc_bytes == pc = "enc" /\ Write("bytes")
Enc_string == pc = "enc" /\ Write("string")

Enc_end ==
    /\ pc = "enc"
    /\ ret' = Encoder_end(enc)
    /\ pc' = "ended"
    /\ UNCHANGED <<enc, prev, written, dec, before, last, nread>>

\* Decoder::new on the bytes end() returned
Dec_new ==
    /\ pc = "ended"
    /\ ret.tag = "Ok"
    /\ dec' = Decoder_new(ret.val)
    /\ before' = Decoder_new(ret.val)
    /\ pc' = "dec"
    /\ UNCHANGED <<enc, prev, written, ret, last, nread>>

\* the reader repeats the writer's calls in the writer's order
Dec_replay ==
    /\ pc = "dec"
    /\ nread < Len(written)
    /\ last.res.tag # "Panic"
    /\ LET op == written[nread + 1].op
           r == Read(op, dec)
       IN  /\ dec' = r.st
           /\ last' = [op |-> op, res |-> r.res]
    /\ before' = dec
    /\ nread' = nread + 1
    /\ UNCHANGED <<pc, enc, prev, written, ret>>

\* a read the caller chooses freely
DecCall(op) ==
    /\ last.res.tag # "Panic"
    /\ LET r == Read(op, dec)
       IN  /\ dec' = r.st
           /\ last' = [op |-> op, res |-> r.res]
    /\ before' = dec
    /\ UNCHANGED <<pc, enc, prev, written, ret, nread>>

Dec_uint8 == pc = "dec" /\ DecCall("uint8")
Dec_uint16 == pc = "dec" /\ DecCall("uint16")
Dec_uint32 == pc = "dec" /\ DecCall("uint32")
Dec_int8 == pc = "dec" /\ DecCall("int8")
Dec_int16 == pc = "dec" /\ DecCall("int16")
Dec_int32 == pc = "dec" /\ DecCall("int32")
Dec_float32 == pc = "dec" /\ DecCall("float32")
Dec_float64 == pc = "dec" /\ DecCall("float64")
Dec_bool == pc = "dec" /\ DecCall("bool")
Dec_size == pc = "dec" /\ DecCall("size")
Dec_bytes == pc = "dec" /\ DecCall("bytes")
Dec_string == pc = "dec" /\ DecCall("string")

---------------------------------------------------------------------------
(* Specifications *)

\* a chain of writes, end(), then a Decoder replaying the chain
Init ==
    /\ pc = "enc"
    /\ enc = Encoder_new
    /\ prev = Encoder_new
    /\ written = <<>>
    /\ ret = Ok(<<>>)
    /\ dec = Decoder_new(<<>>)
    /\ before = Decoder_new(<<>>)
    /\ last = NoCall
    /\ nread = 0

Next ==
    \/ Enc_uint8 \/ Enc_uint16 \/ Enc_uint32
    \/ Enc_int8 \/ Enc_int16 \/ Enc_int32
    \/ Enc_float32 \/ Enc_float64
    \/ Enc_bool \/ Enc_size \/ Enc_bytes \/ Enc_string
    \/ Enc_end \/ Dec_new \/ Dec_replay

Spec == Init /\ [][Next]_vars

\* a Decoder over any byte sequence, read in any order
InitDec ==
    /\ pc = "dec"
    /\ enc = Encoder_new
    /\ prev = Encoder_new
    /\ written = <<>>
    /\ \E buf \in Buffers :
          /\ ret = Ok(buf)
          /\ dec = Decoder_new(buf)
          /\ before = Decoder_new(buf)
    /\ last = NoCall
    /\ nread = 0

NextDec ==
    \/ Dec_uint8 \/ Dec_uint16 \/ Dec_uint32
    \/ Dec_int8 \/ Dec_int16 \/ Dec_int32
    \/ Dec_float32 \/ Dec_float64
    \/ Dec_bool \/ Dec_size \/ Dec_bytes \/ Dec_string

SpecDec == InitDec /\ [][NextDec]_vars

---------------------------------------------------------------------------
(* What the claims speak of *)

N == Len(written)

LastWrite == written[N]

\* the value a read returns for a write
Expected(w) == IF w.op \in {"bytes", "string"} THEN SliceBytes(w.val) ELSE w.val

\* the message of the error an oversize write of this kind sets
Msg(op) ==
    CASE op = "size" -> "[size] value is too large"
      [] op = "bytes" -> "[bytes] is too long"
      [] op = "string" -> "[string] is too long"

Oversized == {i \in 1..N : Oversize(written[i])}

FirstOversize == CHOOSE i \in Oversized : \A j \in Oversized : i <= j

LastOversize == CHOOSE i \in Oversized : \A j \in Oversized : j <= i

\* the bytes the last write added after those of the Encoder it was given
Appended == SubSeq(enc.data, Len(prev.data) + 1, Len(enc.data))

KeptPrefix == SubSeq(enc.data, 1, Len(prev.data)) = prev.data

Bit(b) == IF b THEN 1 ELSE 0

\* the number of boolean writes the chain ends with
RECURSIVE Trailing(_, _)
Trailing(chain, i) ==
    IF i = 0 \/ chain[i].op # "bool" THEN 0 ELSE 1 + Trailing(chain, i - 1)

\* the Encoder after a chain of writes
RECURSIVE Fold(_, _)
Fold(chain, i) ==
    IF i = 0 THEN Encoder_new
    ELSE Apply(chain[i].op, chain[i].val, Fold(chain, i - 1))

\* byte q (from 0) of a run of k booleans starting at write `from` + 1:
\* boolean i of the run in bit i mod 8 of byte i div 8, every other bit 0
RECURSIVE RunByte(_, _, _, _)
RunByte(chain, from, k, i) ==
    IF i >= k \/ i % 8 = 7
    THEN IF i >= k THEN 0 ELSE Bit(chain[from + i + 1].val) * Pow2(7)
    ELSE Bit(chain[from + i + 1].val) * Pow2(i % 8)
         + RunByte(chain, from, k, i + 1)

RunBytes(chain, from, k) ==
    [q \in 1..((k + 7) \div 8) |-> RunByte(chain, from, k, 8 * (q - 1))]

---------------------------------------------------------------------------
(* Claims about the chain of writes and its replay, under Spec *)

\* C1: a chain with no oversize write ends in Ok(bytes), and a Decoder over
\* those bytes that repeats the chain's calls returns, read by read, exactly
\* the value written, no read failing.
C1_RoundTrip ==
    /\ (pc # "enc" /\ Oversized = {}) => (ret.tag = "Ok" /\ ret.val = enc.data)
    /\ (pc = "dec" /\ nread >= 1) => last.res = Ok(Expected(written[nread]))

\* bool, int32 (negative), bool written and all three read back
C1_Witness ==
    /\ pc = "dec" /\ N = 3 /\ nread = 3
    /\ written[1].op = "bool"
    /\ written[2].op = "int32" /\ written[2].val < 0
    /\ written[3].op = "bool" /\ written[3].val

C3_EndOfStream ==
    pc = "dec" =>
        /\ nread = N => Decoder_end(dec)
        /\ nread < N => ~Decoder_end(dec)

\* the unread fields are all booleans packed into the byte that holds the
\* boolean read last
UnreadArePacked ==
    /\ nread >= 1
    /\ \A i \in nread..N : written[i].op = "bool"
    /\ ((Trailing(written, nread) - 1) % 8) + (N - nread) <= 7

\* C3 (amended): with every field read end() is true; with fewer fields read
\* end() is false unless every unread field is a boolean packed into the
\* byte of the boolean read last, and then it is true.
C3_EndOfStreamPacked ==
    pc = "dec" =>
        /\ nread = N => Decoder_end(dec)
        /\ nread < N => (Decoder_end(dec) <=> UnreadArePacked)

\* nine booleans written, eight read: the ninth lies in a byte of its own
C3_Witness ==
    /\ pc = "dec" /\ N = 9 /\ nread = 8
    /\ \A i \in 1..N : written[i].op = "bool"
    /\ ~Decoder_end(dec)

\* C5 (as claimed): a bool write right after any non-boolean write, one
\* rejected as too large included, appends a fresh byte holding the boolean
\* in bit 0 and changes no byte written before.
C5_FreshByte ==
    (N >= 2 /\ LastWrite.op = "bool" /\ written[N - 1].op # "bool")
        => enc.data = Append(prev.data, Bit(LastWrite.val))

\* C5 (amended): a bool write right after a non-boolean write that was not
\* rejected as too large appends a fresh byte holding the boolean in bit 0
\* and changes no byte written before.
C5_FreshByteAfterAccepted ==
    (N >= 2 /\ LastWrite.op = "bool" /\ written[N - 1].op # "bool"
       /\ ~Oversize(written[N - 1]))
        => enc.data = Append(prev.data, Bit(LastWrite.val))

\* bool, bytes, bool: the last boolean in a byte of its own
C5_Witness ==
    /\ N = 3
    /\ written[1].op = "bool" /\ written[1].val
    /\ written[2].op = "bytes" /\ ~Oversize(written[2])
    /\ written[3].op = "bool" /\ written[3].val
    /\ Len(enc.data) = Len(prev.data) + 1

\* the chain ends with a run of k booleans: the buffer is the buffer before
\* the run followed by the ceil(k/8) bytes of the packing law
PackedRun ==
    LET k == Trailing(written, N)
    IN  enc.data = Fold(written, N - k).data \o RunBytes(written, N - k, k)

\* C6 (as claimed): every run of k >= 1 consecutive bool writes appends
\* exactly ceil(k/8) bytes, boolean i of the run in bit i mod 8 of byte
\* i div 8, the unused bits 0.
C6_Packing == (N >= 1 /\ LastWrite.op = "bool") => PackedRun

\* C6 (amended): the same of every run that starts the chain or follows a
\* write that was not rejected as too large.
C6_PackingAfterAccepted ==
    (N >= 1 /\ LastWrite.op = "bool"
       /\ (Trailing(written, N) < N
             => ~Oversize(written[N - Trailing(written, N)])))
        => PackedRun

\* T F T T, uint8(255), F F T F: two packed bytes of four bits each
C6_Witness ==
    /\ N = 9
    /\ \A i \in {1, 3, 4, 8} : written[i].op = "bool" /\ written[i].val
    /\ \A i \in {2, 6, 7, 9} : written[i].op = "bool" /\ ~written[i].val
    /\ written[5].op = "uint8"
    /\ enc.data = <<13, 255, 4>>

\* C7: size(n) appends 1 byte n up to 127, 2 bytes (big-endian n, bit 15
\* set, bit 14 clear) up to 16383, 4 bytes (big-endian n, bits 31 and 30
\* set) up to 1073741823, and Decoder.size() on those bytes returns n; a
\* larger n appends nothing and makes end() fail.
C7_SizeLayout ==
    (N >= 1 /\ LastWrite.op = "size") =>
        LET n == LastWrite.val
            a == Appended
        IN  /\ KeptPrefix
            /\ n <= 127 => a = <<n>>
            /\ (128 <= n /\ n <= 16383) =>
                  /\ Len(a) = 2
                  /\ a[1] * 256 + a[2] = n + 32768
                  /\ a[1] \div 128 = 1 /\ (a[1] \div 64) % 2 = 0
            /\ (16384 <= n /\ n <= 1073741823) =>
                  /\ Len(a) = 4
                  /\ a[1] \div 64 = 3
                  /\ (a[1] % 64) * 16777216 + a[2] * 65536
                       + a[3] * 256 + a[4] = n
            /\ n <= 1073741823 =>
                  /\ Decoder_size(Decoder_new(a)).res = Ok(n)
                  /\ Decoder_end(Decoder_size(Decoder_new(a)).st)
            /\ n >= 1073741824 =>
                  /\ a = <<>>
                  /\ Encoder_end(enc).tag = "Err"
                  /\ pc # "enc" => ret.tag = "Err"

\* size(16383) as the bytes BF FF, after another write
C7_Witness ==
    /\ N = 2 /\ LastWrite.op = "size" /\ LastWrite.val = 16383
    /\ Appended = <<191, 255>>
    /\ prev.data # <<>>

\* C9: end() returns an error if and only if some write of the chain was an
\* oversize size, bytes or string write, whatever precedes or follows it;
\* otherwise it returns Ok with the buffer the writes accumulated.
C9_ErrorIffOversize ==
    pc # "enc" =>
        /\ ret.tag = "Err" <=> Oversized # {}
        /\ ret.tag = "Ok" => ret.val = Fold(written, N).data

\* an oversize write between two accepted writes, then end()
C9_Witness ==
    /\ pc = "ended" /\ N = 3
    /\ ~Oversize(written[1]) /\ Oversize(written[2]) /\ ~Oversize(written[3])
    /\ ret.tag = "Err"

---------------------------------------------------------------------------
(* Claims about reads of any byte sequence, under SpecDec *)

BoundsError == last.res = Err("Attempted to read out of bounds")

\* the bytes left to read when the last call was made
Remaining == before.length - before.index

\* the bytes a fixed-width read takes
Width(op) ==
    CASE op \in {"uint8", "int8"} -> 1
      [] op \in {"uint16", "int16"} -> 2
      [] op \in {"uint32", "int32", "float32"} -> 4
      [] op = "float64" -> 8

FixedOps ==
    {"uint8", "int8", "uint16", "int16", "uint32", "int32", "float32",
     "float64"}

\* the next byte to read when the last call was made
FirstByte == before.data[before.index + 1]

\* the bytes the signature of a size beginning with byte b demands
Need(b) == IF b < 128 THEN 1 ELSE IF b \div 64 = 2 THEN 2 ELSE 4

SizeTruncated == Remaining = 0 \/ Remaining < Need(FirstByte)

\* the size standing at the cursor, when it is not truncated
SizeAt ==
    LET i == before.index
        b == FirstByte
    IN  IF Need(b) = 1 THEN b
        ELSE IF Need(b) = 2 THEN (b % 64) * 256 + before.data[i + 2]
        ELSE (b % 64) * 16777216 + before.data[i + 2] * 65536
             + before.data[i + 3] * 256 + before.data[i + 4]

\* C4 (as claimed): a read that fails with a bounds error leaves the cursor
\* where it was.
C4_CursorUnchanged == BoundsError => dec.index = before.index

\* C4 (amended): a read that fails with a bounds error never moves the
\* cursor back or past the length; a failed uint8, int8 or bool read leaves
\* it where it was; a failed uint16, uint32, int16, int32, float32, float64
\* or size read leaves it at the length, the bytes read before the failure
\* consumed; a failed bytes or string read leaves it at the length when the
\* size prefix is truncated and right after the size prefix otherwise.
C4_FailedReadCursor ==
    BoundsError =>
        /\ before.index <= dec.index /\ dec.index <= dec.length
        /\ last.op \in {"uint8", "int8", "bool"} => dec.index = before.index
        /\ last.op \in (FixedOps \cup {"size"}) => dec.index = dec.length
        /\ last.op \in {"bytes", "string"} =>
              IF SizeTruncated THEN dec.index = dec.length
              ELSE dec.index = before.index + Need(FirstByte)

\* a uint32 read with two bytes left: it fails and the two bytes are gone
C4_Witness ==
    /\ last.op = "uint32" /\ BoundsError
    /\ Remaining = 2
    /\ dec.index = before.index + 2

\* C8: a fixed-width read of w bytes with fewer than w left, a size read
\* whose signature demands more bytes than are left, and a bytes read whose
\* size prefix is truncated or whose length exceeds the bytes left after
\* the prefix, each return the bounds error and no value.
C8_Truncation ==
    /\ (last.op \in FixedOps /\ Remaining < Width(last.op)) => BoundsError
    /\ (last.op = "size" /\ SizeTruncated) => BoundsError
    /\ (last.op \in {"bytes", "string"}
          /\ (SizeTruncated \/ SizeAt > Remaining - Need(FirstByte)))
         => BoundsError

\* a bytes read with a whole two-byte size prefix and too few bytes after it
C8_Witness ==
    /\ last.op = "bytes" /\ BoundsError
    /\ ~SizeTruncated /\ Need(FirstByte) = 2
    /\ SizeAt > Remaining - 2

\* C10: no read indexes outside the buffer: each returns a value or an
\* error and none panics.
C10_NoPanic == last.res.tag \in {"Ok", "Err"}

\* the eighth boolean of the buffer's last byte, read at data[index - 1]
\* with the cursor at the length
C10_Witness ==
    /\ last.op = "bool" /\ last.res.tag = "Ok"
    /\ dec.bool_shift = 7
    /\ dec.index = dec.length /\ dec.length = 3

=============================================================================
